---- MODULE Spec2Model ----
(***************************************************************************)
(* Model of odoorpc/service/db.py: the DB facade over the JSON-RPC         *)
(* transport held in DB._odoo.  One action per method of DB; the           *)
(* transport is the caller-supplied collaborator whose answer to the one   *)
(* request an invocation sends is an input of the action.                  *)
(***************************************************************************)
EXTENDS Integers, Sequences, FiniteSets, TLC

(* ------------------------------------------------------------------ *)
(* State                                                               *)
(* ------------------------------------------------------------------ *)

VARIABLES
    odoo,       \* DB._odoo, the transport handle given to DB.__init__
    dump_file,  \* the caller's binary file object, the `dump` argument of restore
    last,       \* the latest invocation: method, arguments, requests, answer, end
    memo        \* an earlier invocation kept for comparison (SpecIndep only)

vars == <<odoo, dump_file, last, memo>>

(* ------------------------------------------------------------------ *)
(* Bounds of the model and the input domains                           *)
(* ------------------------------------------------------------------ *)

\* Longest content (in bytes) of a byte source or of a dump.
MaxLen == 3

\* Bytes of a sample dump: all bits clear, mixed bits, all bits set, ...
SampleBytes == <<0, 77, 255, 128, 10>>

\* The contents a file object or a dump may have: the sample cut to every
\* length up to MaxLen (one, two and three bytes give the three padding
\* cases of base64), and a content of set bits only.
Contents ==
    {SubSeq(SampleBytes, 1, n) : n \in 0..MaxLen} \cup {<<255, 255>>}

\* A str is its sequence of characters.
Passwords == {<<"s", "u", "p", "e", "r">>, <<"b", "a", "d">>}
DBNames == {<<"p", "r", "o", "d">>, <<"t", "e", "s", "t">>}
Langs == {<<"e", "n", "_", "U", "S">>, <<"f", "r", "_", "F", "R">>}
AdminPasswords == {<<"a", "d", "m", "i", "n">>}

(* ------------------------------------------------------------------ *)
(* Python values that travel through the facade                        *)
(* ------------------------------------------------------------------ *)

Value(ty, b, chars, items, bytes) ==
    [ty |-> ty, b |-> b, chars |-> chars, items |-> items, bytes |-> bytes]

\* Python's None.
PyNone == Value("None", FALSE, <<>>, <<>>, <<>>)
\* A bool.
PyBool(x) == Value("bool", x, <<>>, <<>>, <<>>)
\* A str, as its characters.
PyStr(cs) == Value("str", FALSE, cs, <<>>, <<>>)
\* A list of str.
PyList(xs) == Value("list", FALSE, <<>>, xs, <<>>)
\* An io.BytesIO freshly built over `bytes`: open, positioned at its start.
PyBytesIO(bytes) == Value("BytesIO", FALSE, <<>>, <<>>, bytes)
\* The method raised: it returned nothing at all.
Absent == Value("absent", FALSE, <<>>, <<>>, <<>>)

(* ------------------------------------------------------------------ *)
(* base64.standard_b64encode / base64.standard_b64decode               *)
(* ------------------------------------------------------------------ *)

Alphabet ==
    << "A","B","C","D","E","F","G","H","I","J","K","L","M",
       "N","O","P","Q","R","S","T","U","V","W","X","Y","Z",
       "a","b","c","d","e","f","g","h","i","j","k","l","m",
       "n","o","p","q","r","s","t","u","v","w","x","y","z",
       "0","1","2","3","4","5","6","7","8","9","+","/" >>

Pad == "="

\* The character of the 6-bit group v.
B64Char(v) == Alphabet[v + 1]

\* The 6-bit group of character c, or 64 when c is not of the alphabet.
B64Index(c) ==
    IF \E i \in 1..64 : Alphabet[i] = c
    THEN (CHOOSE i \in 1..64 : Alphabet[i] = c) - 1
    ELSE 64

RECURSIVE standard_b64encode(_)
standard_b64encode(bs) ==
    IF Len(bs) = 0 THEN <<>>
    ELSE IF Len(bs) = 1 THEN
        << B64Char(bs[1] \div 4), B64Char((bs[1] % 4) * 16), Pad, Pad >>
    ELSE IF Len(bs) = 2 THEN
        << B64Char(bs[1] \div 4),
           B64Char((bs[1] % 4) * 16 + bs[2] \div 16),
           B64Char((bs[2] % 16) * 4), Pad >>
    ELSE
        << B64Char(bs[1] \div 4),
           B64Char((bs[1] % 4) * 16 + bs[2] \div 16),
           B64Char((bs[2] % 16) * 4 + bs[3] \div 64),
           B64Char(bs[3] % 64) >>
        \o standard_b64encode(SubSeq(bs, 4, Len(bs)))

\* The decoder's loop over the characters (non-strict mode): quad is the
\* position in the current group of four, left the bits carried over, pads the
\* run of padding seen, out the bytes produced.  Characters outside the
\* alphabet are skipped; padding that completes a group ends the decoding;
\* an incomplete group at the end of the text is an error.
RECURSIVE B64DecodeLoop(_, _, _, _, _, _)
B64DecodeLoop(cs, i, quad, left, pads, out) ==
    IF i > Len(cs) THEN
        IF quad # 0 THEN [ok |-> FALSE, bytes |-> <<>>]
        ELSE [ok |-> TRUE, bytes |-> out]
    ELSE IF cs[i] = Pad THEN
        IF quad >= 2 /\ quad + pads + 1 >= 4
        THEN [ok |-> TRUE, bytes |-> out]
        ELSE B64DecodeLoop(cs, i + 1, quad, left,
                           IF quad >= 2 THEN pads + 1 ELSE pads, out)
    ELSE LET v == B64Index(cs[i]) IN
        IF v >= 64 THEN B64DecodeLoop(cs, i + 1, quad, left, pads, out)
        ELSE IF quad = 0 THEN B64DecodeLoop(cs, i + 1, 1, v, 0, out)
        ELSE IF quad = 1 THEN
            B64DecodeLoop(cs, i + 1, 2, v % 16, 0,
                          Append(out, left * 4 + v \div 16))
        ELSE IF quad = 2 THEN
            B64DecodeLoop(cs, i + 1, 3, v % 4, 0,
                          Append(out, left * 16 + v \div 4))
        ELSE
            B64DecodeLoop(cs, i + 1, 0, 0, 0, Append(out, left * 64 + v))

\* base64.standard_b64decode of a Python value: only a str is decoded.
standard_b64decode(val) ==
    IF val.ty # "str" THEN [exc |-> "TypeError", bytes |-> <<>>]
    ELSE LET r == B64DecodeLoop(val.chars, 1, 0, 0, 0, <<>>)
         IN  IF r.ok THEN [exc |-> "none", bytes |-> r.bytes]
             ELSE [exc |-> "binascii.Error", bytes |-> <<>>]

(* ------------------------------------------------------------------ *)
(* The transport collaborator and the caller's byte source             *)
(* ------------------------------------------------------------------ *)

\* What the transport does with one request: it raises exc, or (exc = "none")
\* answers a dict that has a 'result' entry or has none.
Response(exc, has_result, result) ==
    [exc |-> exc, has_result |-> has_result, result |-> result]

Ok(v) == Response("none", TRUE, v)
NoResultField == Response("none", FALSE, PyNone)
Raises(e) == Response(e, FALSE, PyNone)
\* The transport was not contacted.
NoResponse == Response("not called", FALSE, PyNone)

TransportErrors == {"RPCError", "URLError"}

\* Texts that are not the standard base64 encoding of a content: incomplete
\* groups, missing padding, a character outside the alphabet.
OtherTexts == {<<"Q">>, <<"Q", "Q">>, <<"Q", "Q", "=">>, <<"p", "r", "o", "d", "!">>}

Failures == {Raises(e) : e \in TransportErrors} \cup {NoResultField}

\* Answers to the methods that return nothing.
VoidResponses == {Ok(PyNone), Ok(PyBool(TRUE))} \cup Failures

\* Answers to drop.
DropResponses == {Ok(PyBool(TRUE)), Ok(PyBool(FALSE)), Ok(PyNone)} \cup Failures

\* Answers to list.
ListResponses ==
    { Ok(PyList(<<>>)), Ok(PyList(<< <<"p", "r", "o", "d">> >>)),
      Ok(PyList(<< <<"p", "r", "o", "d">>, <<"t", "e", "s", "t">> >>)),
      Ok(PyNone) } \cup Failures

\* Answers to dump: the base64 text of every content, other texts, a value
\* that is no text.
DumpResponses ==
    {Ok(PyStr(standard_b64encode(x))) : x \in Contents}
        \cup {Ok(PyStr(m)) : m \in OtherTexts}
        \cup {Ok(PyNone)} \cup Failures

\* A binary file object of the caller (io.BytesIO, an open file).
File(content, pos, closed) == [content |-> content, pos |-> pos, closed |-> closed]

\* No file object is among the arguments.
NoFile == File(<<>>, 0, FALSE)

\* file.read(): the bytes from the position to the end; the position moves
\* to the end.
read(f) ==
    [ bytes |-> SubSeq(f.content, f.pos + 1, Len(f.content)),
      file  |-> [f EXCEPT !.pos = Len(f.content)] ]

(* ------------------------------------------------------------------ *)
(* The methods of DB                                                   *)
(* ------------------------------------------------------------------ *)

\* The payload every method builds: {'service': 'db', 'method': ..., 'args': [...]}.
Payload(method, args) == [service |-> "db", method |-> method, args |-> args]

\* json with a retry: a failed request is sent a second time.
json_retry(payload, resp) ==
    LET request == [path |-> "/jsonrpc", payload |-> payload]
    IN  [ calls |-> IF resp.exc = "none" THEN <<request>> ELSE <<request, request>>,
          exc   |-> resp.exc,
          data  |-> resp ]

\* self._odoo.json('/jsonrpc', payload): one request to the transport, which
\* raises or answers.
json(payload, resp) ==
    [ calls |-> << [path |-> "/jsonrpc", payload |-> payload] >>,
      exc   |-> resp.exc,
      data  |-> resp ]

\* How an invocation ends: the requests it sent, the exception it raised
\* ("none": it returned ret), and the caller's file object afterwards.
Outcome(calls, raised, ret, file) ==
    [calls |-> calls, raised |-> raised, ret |-> ret, file |-> file]

\* The code point of a character of a base64 text.
Ord(c) ==
    LET v == B64Index(c)
    IN  IF c = Pad THEN 61
        ELSE IF v < 26 THEN 65 + v
        ELSE IF v < 52 THEN 97 + (v - 26)
        ELSE IF v < 62 THEN 48 + (v - 52)
        ELSE IF v = 62 THEN 43 ELSE 47

\* dump without the decoding: the buffer holds the base64 text itself.
dump_undecoded(password, db, resp) ==
    LET r == json(Payload("dump", <<PyStr(password), PyStr(db)>>), resp)
    IN  IF r.exc # "none" THEN Outcome(r.calls, r.exc, Absent, NoFile)
        ELSE IF ~r.data.has_result THEN Outcome(r.calls, "KeyError", Absent, NoFile)
        ELSE IF r.data.result.ty # "str" THEN Outcome(r.calls, "TypeError", Absent, NoFile)
        ELSE Outcome(r.calls, "none",
                     PyBytesIO([i \in 1..Len(r.data.result.chars) |->
                                    Ord(r.data.result.chars[i])]),
                     NoFile)

dump(password, db, resp) ==
    LET r == json(Payload("dump", <<PyStr(password), PyStr(db)>>), resp)
    IN  IF r.exc # "none" THEN Outcome(r.calls, r.exc, Absent, NoFile)
        ELSE IF ~r.data.has_result THEN Outcome(r.calls, "KeyError", Absent, NoFile)
        ELSE LET binary_data == standard_b64decode(r.data.result)
             IN  IF binary_data.exc # "none"
                 THEN Outcome(r.calls, binary_data.exc, Absent, NoFile)
                 ELSE Outcome(r.calls, "none", PyBytesIO(binary_data.bytes), NoFile)

change_password(password, new_password, resp) ==
    LET r == json(Payload("change_admin_password",
                          <<PyStr(password), PyStr(new_password)>>), resp)
    IN  IF r.exc # "none" THEN Outcome(r.calls, r.exc, Absent, NoFile)
        ELSE Outcome(r.calls, "none", PyNone, NoFile)

\* create under the name of the facade's method instead of the RPC's.
create_wrong_method(password, db, demo, lang, admin_password, resp) ==
    LET r == json(Payload("create",
                          <<PyStr(password), PyStr(db), PyBool(demo),
                            PyStr(lang), PyStr(admin_password)>>), resp)
    IN  IF r.exc # "none" THEN Outcome(r.calls, r.exc, Absent, NoFile)
        ELSE Outcome(r.calls, "none", PyNone, NoFile)

create(password, db, demo, lang, admin_password, resp) ==
    LET r == json(Payload("create_database",
                          <<PyStr(password), PyStr(db), PyBool(demo),
                            PyStr(lang), PyStr(admin_password)>>), resp)
    IN  IF r.exc # "none" THEN Outcome(r.calls, r.exc, Absent, NoFile)
        ELSE Outcome(r.calls, "none", PyNone, NoFile)

\* drop that answers from the previous drop when there was one.
drop_cached(password, db, resp) ==
    LET r == json(Payload("drop", <<PyStr(password), PyStr(db)>>), resp)
    IN  IF r.exc # "none" THEN Outcome(r.calls, r.exc, Absent, NoFile)
        ELSE IF ~r.data.has_result THEN Outcome(r.calls, "KeyError", Absent, NoFile)
        ELSE IF last.op = "drop" /\ last.raised = "none"
             THEN Outcome(r.calls, "none", last.ret, NoFile)
             ELSE Outcome(r.calls, "none", r.data.result, NoFile)

\* drop without its return statement.
drop_no_return(password, db, resp) ==
    LET r == json(Payload("drop", <<PyStr(password), PyStr(db)>>), resp)
    IN  IF r.exc # "none" THEN Outcome(r.calls, r.exc, Absent, NoFile)
        ELSE Outcome(r.calls, "none", PyNone, NoFile)

drop(password, db, resp) ==
    LET r == json(Payload("drop", <<PyStr(password), PyStr(db)>>), resp)
    IN  IF r.exc # "none" THEN Outcome(r.calls, r.exc, Absent, NoFile)
        ELSE IF ~r.data.has_result THEN Outcome(r.calls, "KeyError", Absent, NoFile)
        ELSE Outcome(r.calls, "none", r.data.result, NoFile)

\* duplicate with source and target exchanged.
duplicate_swapped(password, db, new_db, resp) ==
    LET r == json(Payload("duplicate_database",
                          <<PyStr(password), PyStr(new_db), PyStr(db)>>), resp)
    IN  IF r.exc # "none" THEN Outcome(r.calls, r.exc, Absent, NoFile)
        ELSE Outcome(r.calls, "none", PyNone, NoFile)

duplicate(password, db, new_db, resp) ==
    LET r == json(Payload("duplicate_database",
                          <<PyStr(password), PyStr(db), PyStr(new_db)>>), resp)
    IN  IF r.exc # "none" THEN Outcome(r.calls, r.exc, Absent, NoFile)
        ELSE Outcome(r.calls, "none", PyNone, NoFile)

\* list with data['result'] in place of data.get('result', []).
list_strict(resp) ==
    LET r == json(Payload("list", <<>>), resp)
    IN  IF r.exc # "none" THEN Outcome(r.calls, r.exc, Absent, NoFile)
        ELSE IF ~r.data.has_result THEN Outcome(r.calls, "KeyError", Absent, NoFile)
        ELSE Outcome(r.calls, "none", r.data.result, NoFile)

list(resp) ==
    LET r == json(Payload("list", <<>>), resp)
    IN  IF r.exc # "none" THEN Outcome(r.calls, r.exc, Absent, NoFile)
        ELSE Outcome(r.calls, "none",
                     IF r.data.has_result THEN r.data.result ELSE PyList(<<>>),
                     NoFile)

\* restore without the test of dump.closed: read() of a closed file raises.
restore_unchecked(password, db, f, copy, resp) ==
    IF f.closed THEN Outcome(<<>>, "ValueError", Absent, f)
    ELSE LET rd == read(f)
             b64_data == standard_b64encode(rd.bytes)
             r == json(Payload("restore",
                               <<PyStr(password), PyStr(db), PyStr(b64_data),
                                 PyBool(copy)>>), resp)
         IN  IF r.exc # "none" THEN Outcome(r.calls, r.exc, Absent, rd.file)
             ELSE Outcome(r.calls, "none", PyNone, rd.file)

\* restore with the copy flag ahead of the data.
restore_misordered(password, db, f, copy, resp) ==
    IF f.closed THEN Outcome(<<>>, "InternalError", Absent, f)
    ELSE LET rd == read(f)
             b64_data == standard_b64encode(rd.bytes)
             r == json(Payload("restore",
                               <<PyStr(password), PyStr(db), PyBool(copy),
                                 PyStr(b64_data)>>), resp)
         IN  IF r.exc # "none" THEN Outcome(r.calls, r.exc, Absent, rd.file)
             ELSE Outcome(r.calls, "none", PyNone, rd.file)

\* restore that closes the file once it has read it.
restore_closing(password, db, f, copy, resp) ==
    IF f.closed THEN Outcome(<<>>, "InternalError", Absent, f)
    ELSE LET rd == read(f)
             b64_data == standard_b64encode(rd.bytes)
             r == json(Payload("restore",
                               <<PyStr(password), PyStr(db), PyStr(b64_data),
                                 PyBool(copy)>>), resp)
             closed == [rd.file EXCEPT !.closed = TRUE]
         IN  IF r.exc # "none" THEN Outcome(r.calls, r.exc, Absent, closed)
             ELSE Outcome(r.calls, "none", PyNone, closed)

restore(password, db, f, copy, resp) ==
    IF f.closed THEN Outcome(<<>>, "InternalError", Absent, f)
    ELSE LET rd == read(f)
             b64_data == standard_b64encode(rd.bytes)
             r == json(Payload("restore",
                               <<PyStr(password), PyStr(db), PyStr(b64_data),
                                 PyBool(copy)>>), resp)
         IN  IF r.exc # "none" THEN Outcome(r.calls, r.exc, Absent, rd.file)
             ELSE Outcome(r.calls, "none", PyNone, rd.file)

(* ------------------------------------------------------------------ *)
(* Invocations                                                         *)
(* ------------------------------------------------------------------ *)

\* The record of one invocation.  `file` is the state the file argument was in
\* when the method was called, `calls` the requests the transport received,
\* `resp` the transport's answer, if it was asked.
Invocation(op, args, f, resp, o) ==
    [ op     |-> op,
      args   |-> args,
      file   |-> f,
      calls  |-> o.calls,
      resp   |-> IF o.calls = <<>> THEN NoResponse ELSE resp,
      raised |-> o.raised,
      ret    |-> o.ret ]

NoInvocation ==
    [ op |-> "none", args |-> <<>>, file |-> NoFile, calls |-> <<>>,
      resp |-> NoResponse, raised |-> "none", ret |-> Absent ]

\* DB(odoo), and a file object the caller holds: any content, not yet read,
\* open or already closed.
Init ==
    /\ odoo = "odoo"
    /\ dump_file \in {File(c, 0, closed) : c \in Contents, closed \in BOOLEAN}
    /\ last = NoInvocation
    /\ memo = NoInvocation

\* dump = odoo.db.dump(password, db); with keep the caller holds the returned
\* buffer as its file object (the one it may later hand to restore).
Dump(password, db, resp, keep) ==
    LET o == dump(password, db, resp)
    IN  /\ last' = Invocation("dump", <<PyStr(password), PyStr(db)>>, NoFile, resp, o)
        /\ dump_file' = IF keep /\ o.raised = "none"
                        THEN File(o.ret.bytes, 0, FALSE)
                        ELSE dump_file
        /\ UNCHANGED odoo

ChangePassword(password, new_password, resp) ==
    /\ last' = Invocation("change_password",
                          <<PyStr(password), PyStr(new_password)>>, NoFile, resp,
                          change_password(password, new_password, resp))
    /\ UNCHANGED <<odoo, dump_file>>

Create(password, db, demo, lang, admin_password, resp) ==
    /\ last' = Invocation("create",
                          <<PyStr(password), PyStr(db), PyBool(demo), PyStr(lang),
                            PyStr(admin_password)>>, NoFile, resp,
                          create(password, db, demo, lang, admin_password, resp))
    /\ UNCHANGED <<odoo, dump_file>>

Drop(password, db, resp) ==
    /\ last' = Invocation("drop", <<PyStr(password), PyStr(db)>>, NoFile, resp,
                          drop(password, db, resp))
    /\ UNCHANGED <<odoo, dump_file>>

Duplicate(password, db, new_db, resp) ==
    /\ last' = Invocation("duplicate",
                          <<PyStr(password), PyStr(db), PyStr(new_db)>>, NoFile, resp,
                          duplicate(password, db, new_db, resp))
    /\ UNCHANGED <<odoo, dump_file>>

ListDBs(resp) ==
    /\ last' = Invocation("list", <<>>, NoFile, resp, list(resp))
    /\ UNCHANGED <<odoo, dump_file>>

\* odoo.db.restore(password, db, dump_file, copy)
Restore(password, db, copy, resp) ==
    LET o == restore(password, db, dump_file, copy, resp)
    IN  /\ last' = Invocation("restore",
                              <<PyStr(password), PyStr(db), PyBool(copy)>>,
                              dump_file, resp, o)
        /\ dump_file' = o.file
        /\ UNCHANGED odoo

\* Any method, any arguments, any answer of the transport.
Next ==
    \/ \E password \in Passwords, db \in DBNames, resp \in DumpResponses,
          keep \in BOOLEAN :
          Dump(password, db, resp, keep) /\ UNCHANGED memo
    \/ \E password \in Passwords, new_password \in AdminPasswords,
          resp \in VoidResponses :
          ChangePassword(password, new_password, resp) /\ UNCHANGED memo
    \/ \E password \in Passwords, db \in DBNames, demo \in BOOLEAN,
          lang \in Langs, admin_password \in AdminPasswords,
          resp \in VoidResponses :
          Create(password, db, demo, lang, admin_password, resp) /\ UNCHANGED memo
    \/ \E password \in Passwords, db \in DBNames, resp \in DropResponses :
          Drop(password, db, resp) /\ UNCHANGED memo
    \/ \E password \in Passwords, db \in DBNames, new_db \in DBNames,
          resp \in VoidResponses :
          Duplicate(password, db, new_db, resp) /\ UNCHANGED memo
    \/ \E resp \in ListResponses : ListDBs(resp) /\ UNCHANGED memo
    \/ \E password \in Passwords, db \in DBNames, copy \in BOOLEAN,
          resp \in VoidResponses :
          Restore(password, db, copy, resp) /\ UNCHANGED memo

Spec == Init /\ [][Next]_vars

(* ------------------------------------------------------------------ *)
(* Two invocations side by side                                        *)
(* ------------------------------------------------------------------ *)

\* The arguments and answers of the comparison: one password, both database
\* names, and for each method answers with a result and a failure.
Password1 == <<"s", "u", "p", "e", "r">>
Lang1 == <<"f", "r", "_", "F", "R">>
AdminPassword1 == <<"a", "d", "m", "i", "n">>
Contents1 == {<<>>, <<0, 77>>}
VoidResponses1 == {Ok(PyNone), Raises("RPCError")}
DropResponses1 == {Ok(PyBool(TRUE)), Ok(PyBool(FALSE)), Raises("RPCError")}
ListResponses1 == {Ok(PyList(<< <<"p", "r", "o", "d">> >>)), NoResultField}
DumpResponses1 ==
    {Ok(PyStr(standard_b64encode(<<255>>))), Ok(PyStr(<<"Q">>)), Raises("URLError")}

InitIndep ==
    /\ odoo = "odoo"
    /\ dump_file \in {File(c, 0, closed) : c \in Contents1, closed \in BOOLEAN}
    /\ last = NoInvocation
    /\ memo = NoInvocation

\* As Next, and the observer keeps the invocation just made or the one it
\* already holds.
NextIndep ==
    \/ \E db \in DBNames, resp \in DumpResponses1, keep \in BOOLEAN :
          Dump(Password1, db, resp, keep) /\ memo' \in {memo, last'}
    \/ \E resp \in VoidResponses1 :
          ChangePassword(Password1, AdminPassword1, resp) /\ memo' \in {memo, last'}
    \/ \E db \in DBNames, demo \in BOOLEAN, resp \in VoidResponses1 :
          Create(Password1, db, demo, Lang1, AdminPassword1, resp)
              /\ memo' \in {memo, last'}
    \/ \E db \in DBNames, resp \in DropResponses1 :
          Drop(Password1, db, resp) /\ memo' \in {memo, last'}
    \/ \E db \in DBNames, new_db \in DBNames, resp \in VoidResponses1 :
          Duplicate(Password1, db, new_db, resp) /\ memo' \in {memo, last'}
    \/ \E resp \in ListResponses1 : ListDBs(resp) /\ memo' \in {memo, last'}
    \/ \E db \in DBNames, copy \in BOOLEAN, resp \in VoidResponses1 :
          Restore(Password1, db, copy, resp) /\ memo' \in {memo, last'}

SpecIndep == InitIndep /\ [][NextIndep]_vars

(* ------------------------------------------------------------------ *)
(* Properties                                                          *)
(* ------------------------------------------------------------------ *)

\* The request a method is documented to send: service "db", the RPC's name,
\* the arguments.
Request(method, args) ==
    [path |-> "/jsonrpc", payload |-> [service |-> "db", method |-> method, args |-> args]]

\* The bytes of file object f that lie after its position.
Unread(f) == SubSeq(f.content, f.pos + 1, Len(f.content))

\* C1: restore called with a file object that is already closed raises
\* InternalError, sends nothing to the transport and leaves the file object as
\* it was (not read, still closed), whatever the password, the database name
\* and the copy flag.
C1_RestoreClosedRaises ==
    (last.op = "restore" /\ last.file.closed) =>
        /\ last.raised = "InternalError"
        /\ last.ret = Absent
        /\ last.calls = <<>>
        /\ dump_file = last.file

C1_Witness ==
    /\ last.op = "restore"
    /\ last.file.closed
    /\ Len(last.file.content) > 0
    /\ last.args[3] = PyBool(TRUE)

\* C2 as stated: restore on an open file object sends exactly one request,
\* "restore", with args [password, db, b64_data, copy], b64_data being the
\* base64 encoding of the full content of the file object.
C2_RestoreSendsFullContent ==
    (last.op = "restore" /\ ~last.file.closed) =>
        last.calls = << Request("restore",
                                << last.args[1], last.args[2],
                                   PyStr(standard_b64encode(last.file.content)),
                                   last.args[3] >>) >>

\* C2 amended: restore on an open file object sends exactly one request,
\* "restore", with args [password, db, b64_data, copy], b64_data being the
\* base64 encoding of the bytes from the position of the file object to its
\* end (its full content when it has not been read): decoding b64_data gives
\* those bytes back.
C2_RestoreSendsUnread ==
    (last.op = "restore" /\ ~last.file.closed) =>
        /\ last.calls = << Request("restore",
                                   << last.args[1], last.args[2],
                                      PyStr(standard_b64encode(Unread(last.file))),
                                      last.args[3] >>) >>
        /\ standard_b64decode(last.calls[1].payload.args[3])
               = [exc |-> "none", bytes |-> Unread(last.file)]

C2_Witness ==
    /\ last.op = "restore"
    /\ ~last.file.closed
    /\ last.file.pos = 0
    /\ Len(last.file.content) = 3
    /\ Len(last.calls) = 1
    /\ Len(last.calls[1].payload.args[3].chars) = 4

\* C3: when the transport answers the dump request with the base64 text of x,
\* dump returns a buffer whose content is x, having sent exactly one request,
\* "dump", with args [password, db].
C3_DumpDecodes ==
    \A x \in Contents :
        ( /\ last.op = "dump"
          /\ last.resp = Ok(PyStr(standard_b64encode(x))) ) =>
            /\ last.raised = "none"
            /\ last.ret = PyBytesIO(x)
            /\ last.calls = << Request("dump", last.args) >>

C3_Witness ==
    /\ last.op = "dump"
    /\ last.raised = "none"
    /\ last.ret.ty = "BytesIO"
    /\ last.ret.bytes = <<0, 77, 255>>
    /\ last.resp.result.chars = <<"A", "E", "3", "/">>

\* C4: list returns the value of the answer's result entry when there is one
\* and an empty list when there is none; a missing result never makes it fail.
C4_ListResultOrEmpty ==
    (last.op = "list" /\ last.resp.exc = "none") =>
        /\ last.raised = "none"
        /\ last.ret = IF last.resp.has_result THEN last.resp.result ELSE PyList(<<>>)

C4_Witness ==
    /\ last.op = "list"
    /\ last.resp = NoResultField
    /\ last.ret = PyList(<<>>)

\* C5: drop returns the boolean of the answer's result entry unchanged, having
\* sent exactly one request, "drop", with args [password, db].
C5_DropReturnsResult ==
    ( /\ last.op = "drop"
      /\ last.resp.exc = "none"
      /\ last.resp.has_result
      /\ last.resp.result.ty = "bool" ) =>
        /\ last.raised = "none"
        /\ last.ret = last.resp.result
        /\ last.calls = << Request("drop", last.args) >>

C5_Witness ==
    /\ last.op = "drop"
    /\ last.resp = Ok(PyBool(FALSE))
    /\ last.ret = PyBool(FALSE)

\* The RPC name documented for each method.
DocumentedMethod(op) ==
    CASE op = "list" -> "list"
      [] op = "create" -> "create_database"
      [] op = "drop" -> "drop"
      [] op = "duplicate" -> "duplicate_database"
      [] op = "change_password" -> "change_admin_password"
      [] op = "dump" -> "dump"
      [] op = "restore" -> "restore"

\* C6: every request a method sends has service "db" and the RPC name
\* documented for that method, never the name of another method.
C6_ServiceAndMethod ==
    \A i \in 1..Len(last.calls) :
        /\ last.calls[i].payload.service = "db"
        /\ last.calls[i].payload.method = DocumentedMethod(last.op)

C6_Witness ==
    /\ last.op = "create"
    /\ Len(last.calls) = 1
    /\ last.calls[1].payload.method = "create_database"

\* C7: an invocation sends at most one request; when the transport fails it
\* (RPC error, connection error) the invocation raises that same failure, has
\* sent nothing more and returns no value.
C7_NoRetry ==
    /\ Len(last.calls) <= 1
    /\ (Len(last.calls) = 1 /\ last.resp.exc \in TransportErrors) =>
           /\ last.raised = last.resp.exc
           /\ last.ret = Absent

C7_Witness ==
    /\ last.op = "dump"
    /\ Len(last.calls) = 1
    /\ last.resp = Raises("URLError")
    /\ last.raised = "URLError"

\* C8: create, duplicate and change_password send their arguments unchanged
\* and in the documented order, and return None whatever the answer's result
\* entry holds (or when it is missing).
C8_ForwardAndReturnNone ==
    (last.op \in {"create", "duplicate", "change_password"}) =>
        /\ last.calls = << Request(DocumentedMethod(last.op), last.args) >>
        /\ last.resp.exc = "none" => (last.raised = "none" /\ last.ret = PyNone)

C8_Witness ==
    /\ last.op = "duplicate"
    /\ last.args[2] # last.args[3]
    /\ last.resp = Ok(PyBool(TRUE))
    /\ last.ret = PyNone

C10_RestoreConsumes ==
    [][ /\ (last'.op = "restore" /\ ~last'.file.closed) =>
               /\ ~dump_file'.closed
               /\ dump_file'.pos = Len(dump_file'.content)
               /\ dump_file'.content = last'.file.content
        /\ (/\ last.op = "restore" /\ ~last.file.closed
            /\ last'.op = "restore" /\ last'.file = dump_file) =>
               /\ last'.raised # "InternalError"
               /\ Len(last'.calls) = 1
               /\ last'.calls[1].payload.args[3] = PyStr(<<>>) ]_vars

C10_Witness ==
    /\ last.op = "restore"
    /\ ~last.file.closed
    /\ Len(last.file.content) > 0
    /\ last.file.pos = Len(last.file.content)
    /\ last.resp.exc = "RPCError"
    /\ last.calls[1].payload.args[3] = PyStr(<<>>)
    /\ ~dump_file.closed

====
